---- MODULE Spec2Model ----
(***************************************************************************)
(* Model of the epoch reward pipeline of fetch-total-validator-earnings.js *)
(* (x1-validator-analytics): the setup phase of main, the epoch walker     *)
(* fetchRewardsForEpochs, the single-epoch fetcher fetchSingleEpochReward  *)
(* and the part of main that follows the walk (sort, cumulative columns,   *)
(* output files).  Every await of the source is a position of pc; the code *)
(* between two awaits is one action.                                       *)
(***************************************************************************)
EXTENDS Integers, Naturals, Sequences, FiniteSets, TLC

(* ---------------------------------------------------------------------- *)
(* Bounds of the model                                                     *)
(* ---------------------------------------------------------------------- *)
\* largest number of epochs one modelled walk attempts
MaxWalk == 3
\* number of seconds the wall clock may advance during one run
MaxClockTicks == 1
\* most records handed to a summary function called on its own
MaxRecords == 2

(* ---------------------------------------------------------------------- *)
(* Program constants                                                       *)
(* ---------------------------------------------------------------------- *)
\* `if (epoch <= 15)` : epochs up to the rollback are early failures
EarlyEpochThreshold == 15
\* `const updateInterval = 5`
updateInterval == 5
\* `24 * 60 * 60` : the seconds of the one-day-per-epoch approximation
SecondsPerDay == 86400
\* `reward.amount / 1e9` : raw units per XNT
LamportsPerXnt == 1000000000
\* configLoader defaults: `fallbackPriceUsd: 1.0` (whole dollars)
fallbackPriceUsd == 1

(* ---------------------------------------------------------------------- *)
(* Encodings                                                               *)
(* ---------------------------------------------------------------------- *)
\* null / undefined of a number-valued slot (argv.epochs, unset locals)
NULL == -1
\* exit code of a process that has not exited
NoExit == -1
\* Date.now() / 1000 at the start of the run
Now0 == 100 * SecondsPerDay
\* block times the chain may report for an effective slot
BlockTimes == {Now0 - SecondsPerDay, Now0 - 3 * SecondsPerDay + 3600}
\* raw reward amounts the chain may report (0 and positive ones, one below
\* the 6-decimal resolution of 1000 raw units)
RawAmounts == {0, 499, LamportsPerXnt}

\* values of chain epoch for which walks are modelled: walks that reach
\* epoch 0 and walks that start above the early threshold and cross it
ChainEpochs == (0 .. MaxWalk) \cup
               ((EarlyEpochThreshold + 1) .. (EarlyEpochThreshold + MaxWalk))
\* values of --epochs: absent, or a count (also counts beyond the range)
EpochLimits == {NULL} \cup (0 .. (MaxWalk + 1))

Min(a, b) == IF a < b THEN a ELSE b
Max(a, b) == IF a > b THEN a ELSE b

\* number of epochs the loop of fetchRewardsForEpochs attempts; used only
\* to keep the modelled runs within MaxWalk
WalkLength(ce, lim) == IF lim = NULL THEN ce ELSE Min(ce, Max(lim, 1))

VARIABLES
    pc,                  \* position of main / the walker / the fetcher
    chainEpoch,          \* epoch the chain reports (getEpochInfo().epoch)
    maxEpochs,           \* argv.epochs (NULL = no limit)
    verbose,             \* argv.verbose
    priceOption,         \* argv.fallbackPriceUsd
    now,                 \* wall clock, seconds
    currentEpoch,        \* main: currentEpoch (NULL before it is fetched)
    epoch,               \* walker: loop variable
    rewards,             \* walker: rewards array (later sorted by main)
    processedCount,      \* walker counters
    failedCount,
    lowEpochFailures,
    unexpectedFailures,
    progressWrites,      \* number of progress bar updates written
    twin,                \* the walker's state in the same walk, fed by the
                         \* same fetcher results, run with the other
                         \* setting of argv.verbose
    amount,              \* fetcher: reward.amount of the epoch in progress
    rewardTimestamp,     \* fetcher: rewardTimestamp (0 = undefined)
    answer,              \* fetcher: how the timestamp of the epoch in
                         \*          progress was answered by the chain
    tally,               \* <<>> or <<object returned by the walker>>
    exitCode,            \* process exit code, NoExit while running
    log,                 \* tags of the messages written to stdout/stderr
    files,               \* output files written
    report,              \* what main computed and handed to the console
                         \* and the writers after the walk
    inFlight,            \* chain queries issued and not yet answered
    queried,             \* history: epochs whose reward query was issued
    outcomes,            \* history: outcome of each finished epoch
    thrown,              \* history: errors the chain client raised while
                         \*          an epoch was queried
    setupFailed          \* history: a setup step of main failed

vars == <<pc, chainEpoch, maxEpochs, verbose, priceOption, now, currentEpoch,
          epoch, rewards, processedCount, failedCount, lowEpochFailures,
          unexpectedFailures, progressWrites, twin, amount, rewardTimestamp,
          answer, tally, exitCode, log, files, report, inFlight, queried, outcomes,
          thrown, setupFailed>>

inputVars == <<chainEpoch, maxEpochs, verbose, priceOption>>
walkerVars == <<epoch, rewards, processedCount, failedCount,
                lowEpochFailures, unexpectedFailures, progressWrites, twin>>
fetcherVars == <<amount, rewardTimestamp, answer>>
outputVars == <<tally, exitCode, log, files, report>>
historyVars == <<queried, outcomes>>
errorVars == <<thrown, setupFailed>>

(* ---------------------------------------------------------------------- *)
(* Pure functions                                                          *)
(* ---------------------------------------------------------------------- *)
\* Number.prototype.toFixed: n/d rounded to the nearest integer
RoundDiv(n, d) == (2 * n + d) \div (2 * d)

\* amountXNT.toFixed(6), in millionths of an XNT
XntFixed6(raw) == RoundDiv(raw, LamportsPerXnt \div 1000000)

\* (amountXNT * priceUSD).toFixed(4), in ten-thousandths of a dollar
UsdFixed4(raw, price) == RoundDiv(raw * price, LamportsPerXnt \div 10000)

\* moment.unix(ts).utc().format('YYYY-MM-DD HH:mm:ss')
FormatUtc(ts) == [day |-> ts \div SecondsPerDay, sec |-> ts % SecondsPerDay]

\* moment(rewardDate).unix()
ParseDate(d) == d.day * SecondsPerDay + d.sec

\* variant: the offset of one day per epoch is left out
FallbackTimestampNoOffset(t, ce, e) == t

\* the approximation of line 208
FallbackTimestamp(t, ce, e) == t - ((ce - e) * SecondsPerDay)

\* variant: the approximation is used whatever getBlockTime answered
ResolveTimestampAlwaysFallback(ts, fallback) == fallback

\* lines 206-210: `if (!rewardTimestamp) rewardTimestamp = <approximation>`
ResolveTimestamp(ts, fallback) == IF ts = 0 THEN fallback ELSE ts

\* the fetcher has no answer about the timestamp of the epoch in progress
NoAnswer == [kind |-> "none", time |-> 0]

\* fetchHistoricalPrice: always the configured fallback
fetchHistoricalPrice(ts) == fallbackPriceUsd

\* the object returned at lines 215-221
RewardRecord(e, ts, raw, price) ==
    [epoch |-> e,
     rewardDate |-> FormatUtc(ts),
     xntAmount |-> XntFixed6(raw),
     priceUSD |-> price * 1000000,
     valueUSD |-> UsdFixed4(raw, price)]

\* variant: the catch logs and rethrows
OnQueryErrorRethrow == [kind |-> "throw", value |-> <<>>]

\* the outer catch of fetchSingleEpochReward (lines 225-228)
OnQueryError == [kind |-> "return", value |-> <<>>]

\* the inner catch around getBlockTime (lines 201-203): rewardTimestamp
\* stays undefined
OnBlockTimeError == 0

\* variant: failedCount++ moved into the else branch
TallyFailureTotalInElse(e, f, l, u) ==
    [failedCount |-> IF e <= EarlyEpochThreshold THEN f ELSE f + 1,
     lowEpochFailures |-> IF e <= EarlyEpochThreshold THEN l + 1 ELSE l,
     unexpectedFailures |-> IF e <= EarlyEpochThreshold THEN u ELSE u + 1]

\* variant: `epoch < 15` instead of `epoch <= 15`
TallyFailureStrictThreshold(e, f, l, u) ==
    [failedCount |-> f + 1,
     lowEpochFailures |-> IF e < EarlyEpochThreshold THEN l + 1 ELSE l,
     unexpectedFailures |-> IF e < EarlyEpochThreshold THEN u ELSE u + 1]

\* variant: failedCount is incremented in the test and again in each branch
TallyFailureCountedTwice(e, f, l, u) ==
    [failedCount |-> f + 2,
     lowEpochFailures |-> IF e <= EarlyEpochThreshold THEN l + 1 ELSE l,
     unexpectedFailures |-> IF e <= EarlyEpochThreshold THEN u ELSE u + 1]

\* lines 272-278: the counters after a null reward for epoch e
TallyFailure(e, f, l, u) ==
    [failedCount |-> f + 1,
     lowEpochFailures |-> IF e <= EarlyEpochThreshold THEN l + 1 ELSE l,
     unexpectedFailures |-> IF e <= EarlyEpochThreshold THEN u ELSE u + 1]

\* variant: the loop variable is not decremented (the epoch is retried)
NextEpochRetry(e) == e

\* `epoch--` of the for loop
NextEpoch(e) == e - 1

\* line 293: the count limit has been reached
LimitReached(lim, processed) == lim /= NULL /\ processed >= lim

\* variant: the early failures are added instead of subtracted
ExpectedEpochsAddingEarly(processed, low) == processed + low

\* variant: the early failures are not subtracted
ExpectedEpochsIgnoringEarly(processed, low) == processed

\* line 305
ExpectedEpochsOf(processed, low) == processed - low

\* variant: the comparator is reversed (newest first)
InsertByDateDescending(r, s) ==
    LET k == ParseDate(r.rewardDate)
        n == Cardinality({i \in 1 .. Len(s) : ParseDate(s[i].rewardDate) >= k})
    IN  SubSeq(s, 1, n) \o <<r>> \o SubSeq(s, n + 1, Len(s))

\* rewards.sort((a, b) => moment(a.rewardDate).unix() - moment(b.rewardDate).unix())
\* Array.prototype.sort is stable: equal keys keep their order
InsertByDate(r, s) ==
    LET k == ParseDate(r.rewardDate)
        n == Cardinality({i \in 1 .. Len(s) : ParseDate(s[i].rewardDate) <= k})
    IN  SubSeq(s, 1, n) \o <<r>> \o SubSeq(s, n + 1, Len(s))

RECURSIVE SortByDate(_)
SortByDate(s) ==
    IF s = <<>> THEN <<>>
    ELSE InsertByDate(s[Len(s)], SortByDate(SubSeq(s, 1, Len(s) - 1)))

\* variant: the running total is read before the record's own amount is added
RECURSIVE SumFieldExclusive(_, _, _)
SumFieldExclusive(s, n, xnt) ==
    IF n <= 1 THEN 0
    ELSE (IF xnt THEN s[n - 1].xntAmount ELSE s[n - 1].valueUSD)
         + SumFieldExclusive(s, n - 1, xnt)

\* lines 386-393: running totals attached to each record, in one pass
RECURSIVE SumField(_, _, _)
SumField(s, n, xnt) ==
    IF n = 0 THEN 0
    ELSE (IF xnt THEN s[n].xntAmount ELSE s[n].valueUSD) + SumField(s, n - 1, xnt)

WithCumulative(s) ==
    [i \in 1 .. Len(s) |->
        [epoch |-> s[i].epoch,
         rewardDate |-> s[i].rewardDate,
         xntAmount |-> s[i].xntAmount,
         priceUSD |-> s[i].priceUSD,
         valueUSD |-> s[i].valueUSD,
         cumulativeXNT |-> SumField(s, i, TRUE),
         cumulativeUSD |-> SumField(s, i, FALSE)]]

(* ---------------------------------------------------------------------- *)
(* Summary statistics: printSummary, writeAnalyticsCsv (csvWriter.js) and  *)
(* writeJsonExport (jsonWriter.js) each compute them from the records and  *)
(* the tally                                                               *)
(* ---------------------------------------------------------------------- *)
\* the string 'N/A'
NA == -1
\* what toFixed prints for the result of a division by zero ('NaN' or
\* 'Infinity'); a JavaScript division by zero does not throw
NaN == -2

\* (n / d).toFixed(k) for n >= 0, d >= 0, in units of 10^-k
JsDivFixed(n, d) == IF d = 0 THEN NaN ELSE RoundDiv(n, d)

\* moment(...).startOf('day')
StartOfDay(d) == [day |-> d.day, sec |-> 0]

\* integer quotient rounded towards zero, as moment's diff does
TruncDiv(a, b) == IF a >= 0 THEN a \div b ELSE -((-a) \div b)

\* a.diff(b, 'days')
DiffDays(a, b) == TruncDiv(ParseDate(a) - ParseDate(b), SecondsPerDay)

\* variant: the `+ 1` is left out
DaysCoveredNoPlusOne(s) ==
    DiffDays(StartOfDay(s[Len(s)].rewardDate), StartOfDay(s[1].rewardDate))

\* `lastDate.diff(firstDate, 'days') + 1` of printSummary (lines 323-325)
\* and of writeAnalyticsCsv (csvWriter.js lines 76-78), for Len(s) > 0
DaysCovered(s) ==
    DiffDays(StartOfDay(s[Len(s)].rewardDate), StartOfDay(s[1].rewardDate)) + 1

\* jsonWriter.js lines 26-28: the two dates are first formatted as
\* 'YYYY-MM-DD' (or 'N/A'), then parsed again for the difference
JsonFirstDate(s) == IF Len(s) > 0 THEN StartOfDay(s[1].rewardDate).day ELSE NA
JsonLastDate(s) ==
    IF Len(s) > 0 THEN StartOfDay(s[Len(s)].rewardDate).day ELSE NA
JsonDaysCovered(s) ==
    IF Len(s) > 0
    THEN DiffDays([day |-> JsonLastDate(s), sec |-> 0],
                  [day |-> JsonFirstDate(s), sec |-> 0]) + 1
    ELSE 0

\* variant: the total is kept across calls and added to the one computed
\* before
TotalXntAccumulating(s) ==
    SumField(s, Len(s), TRUE) +
    (IF report.analytics = <<>> THEN 0 ELSE report.analytics[1].totalXNT)

\* rewards.reduce((sum, r) => sum + parseFloat(r.xntAmount), 0)
TotalXnt(s) == SumField(s, Len(s), TRUE)

\* `days > 0 ? (totalXNT / days).toFixed(6) : 'N/A'`
AvgDaily(total, days) == IF days > 0 THEN JsDivFixed(total, days) ELSE NA

\* `n > 0 ? (totalXNT / n).toFixed(6) : 'N/A'`
AvgPerEpoch(total, n) == IF n > 0 THEN JsDivFixed(total, n) ELSE NA

\* variant: the guard against a zero divisor is left out
PercentageUnguarded(n, divisor) == JsDivFixed(n * 10000, divisor)

\* `divisor > 0 ? ((n / divisor) * 100).toFixed(2) : '0.00'`, in hundredths
\* of a percent
PercentageOf(n, divisor) ==
    IF divisor > 0 THEN JsDivFixed(n * 10000, divisor) ELSE 0

\* printSummary (lines 320-348): nothing is printed without records
printSummary(s, t) ==
    IF Len(s) = 0 THEN <<>>
    ELSE <<[firstDate |-> StartOfDay(s[1].rewardDate).day,
            lastDate |-> StartOfDay(s[Len(s)].rewardDate).day,
            days |-> DaysCovered(s),
            totalXNT |-> TotalXnt(s),
            avgDaily |-> AvgDaily(TotalXnt(s), DaysCovered(s)),
            epochsWithRewards |-> Len(s),
            percentageExpectedWithRewards |->
                PercentageOf(Len(s), t.expectedEpochs),
            avgPerEpoch |-> AvgPerEpoch(TotalXnt(s), Len(s))]>>

\* writeAnalyticsCsv (csvWriter.js lines 73-106): nothing is written
\* without records
writeAnalyticsCsv(s, t) ==
    IF Len(s) = 0 THEN <<>>
    ELSE <<[firstDate |-> StartOfDay(s[1].rewardDate).day,
            lastDate |-> StartOfDay(s[Len(s)].rewardDate).day,
            days |-> DaysCovered(s),
            totalXNT |-> TotalXnt(s),
            avgDaily |-> AvgDaily(TotalXnt(s), DaysCovered(s)),
            epochsWithRewards |-> Len(s),
            percentageWithRewards |->
                PercentageOf(Len(s), t.totalEpochsProcessed),
            percentageExpectedWithRewards |->
                PercentageOf(Len(s), t.expectedEpochs),
            avgPerEpoch |-> AvgPerEpoch(TotalXnt(s), Len(s))]>>

\* writeJsonExport (jsonWriter.js lines 23-34): written only with --json,
\* and then also for an empty record array
writeJsonExport(s, t, exportJson) ==
    IF ~exportJson THEN <<>>
    ELSE <<[firstDate |-> JsonFirstDate(s),
            lastDate |-> JsonLastDate(s),
            days |-> JsonDaysCovered(s),
            totalXNT |-> TotalXnt(s),
            avgDaily |-> AvgDaily(TotalXnt(s), JsonDaysCovered(s)),
            epochsWithRewards |-> Len(s),
            percentageWithRewards |->
                PercentageOf(Len(s), t.totalEpochsProcessed),
            percentageExpectedWithRewards |->
                PercentageOf(Len(s), t.expectedEpochs),
            avgPerEpoch |-> AvgPerEpoch(TotalXnt(s), Len(s))]>>

\* variant: the running totals are continued from the cumulative fields
\* the records already carry
writeMainCsvContinued(s) ==
    [i \in 1 .. Len(s) |->
        [epoch |-> s[i].epoch,
         rewardDate |-> s[i].rewardDate,
         xntAmount |-> s[i].xntAmount,
         cumulativeXNT |-> s[i].cumulativeXNT + SumField(s, i, TRUE),
         priceUSD |-> s[i].priceUSD,
         valueUSD |-> s[i].valueUSD,
         cumulativeUSD |-> s[i].cumulativeUSD + SumField(s, i, FALSE)]]

\* writeMainCsv (csvWriter.js lines 24-54): the rows of the main CSV; the
\* running totals are computed again from xntAmount and valueUSD
writeMainCsv(s) ==
    [i \in 1 .. Len(s) |->
        [epoch |-> s[i].epoch,
         rewardDate |-> s[i].rewardDate,
         xntAmount |-> s[i].xntAmount,
         cumulativeXNT |-> SumField(s, i, TRUE),
         priceUSD |-> s[i].priceUSD,
         valueUSD |-> s[i].valueUSD,
         cumulativeUSD |-> SumField(s, i, FALSE)]]

\* the computations main performs after a walk with records, in the order
\* of lines 383-400, each with the function that performs it
PostWalkOps(exportJson) ==
    <<[op |-> "sort", by |-> "main"],
      [op |-> "cumulative", by |-> "main"],
      [op |-> "summary", by |-> "printSummary"],
      [op |-> "cumulative", by |-> "writeMainCsv"],
      [op |-> "write", by |-> "writeMainCsv"],
      [op |-> "summary", by |-> "writeAnalyticsCsv"]>> \o
    (IF exportJson THEN <<[op |-> "summary", by |-> "writeJsonExport"]>>
     ELSE <<>>)

\* nothing has been computed after the walk
EmptyReport ==
    [ops |-> <<>>, printed |-> <<>>, rows |-> <<>>, analytics |-> <<>>,
     json |-> <<>>]

(* ---------------------------------------------------------------------- *)
(* Initial state: the process has parsed its arguments and created the     *)
(* connection; nothing has been queried.  logRpcHealth (lines 108-119)     *)
(* catches its own errors and assigns nothing, so it has no action.        *)
(* ---------------------------------------------------------------------- *)
\* variant: the call is not awaited, the query stays outstanding while
\* control goes on
NotAwaited(pending, q) == pending

\* `await` of a chain query (lines 181, 197) and of the fetcher (line 271):
\* control continues only when the query q has been answered
Awaited(pending, q) == pending \ {q}

\* the walker's state before the walk has started
NoWalk ==
    [epoch |-> NULL, rewards |-> <<>>, processedCount |-> 0,
     failedCount |-> 0, lowEpochFailures |-> 0, unexpectedFailures |-> 0,
     progressWrites |-> 0]

\* variant: writing the progress bar counts the epoch once more
WalkerAfterEpochProgressCounts(w, v, reward, lim) ==
    LET t == TallyFailure(w.epoch, w.failedCount, w.lowEpochFailures,
                          w.unexpectedFailures)
        processed == w.processedCount + 1
        progress == ~v /\ processed % updateInterval = 0
    IN  [epoch |-> IF LimitReached(lim, processed) THEN w.epoch
                   ELSE NextEpoch(w.epoch),
         rewards |-> IF reward = <<>> THEN w.rewards ELSE w.rewards \o reward,
         processedCount |-> IF progress THEN processed + 1 ELSE processed,
         failedCount |-> IF reward = <<>> THEN t.failedCount ELSE w.failedCount,
         lowEpochFailures |->
             IF reward = <<>> THEN t.lowEpochFailures ELSE w.lowEpochFailures,
         unexpectedFailures |->
             IF reward = <<>> THEN t.unexpectedFailures
             ELSE w.unexpectedFailures,
         progressWrites |->
             IF progress THEN w.progressWrites + 1 ELSE w.progressWrites]

\* one pass of the walker's loop body (lines 271-296) on the walker state
\* w, with argv.verbose = v, the fetcher's result `reward` (<<>> for null)
\* and the limit lim
WalkerAfterEpoch(w, v, reward, lim) ==
    LET t == TallyFailure(w.epoch, w.failedCount, w.lowEpochFailures,
                          w.unexpectedFailures)
        processed == w.processedCount + 1
        progress == ~v /\ processed % updateInterval = 0
    IN  [epoch |-> IF LimitReached(lim, processed) THEN w.epoch
                   ELSE NextEpoch(w.epoch),
         rewards |-> IF reward = <<>> THEN w.rewards ELSE w.rewards \o reward,
         processedCount |-> processed,
         failedCount |-> IF reward = <<>> THEN t.failedCount ELSE w.failedCount,
         lowEpochFailures |->
             IF reward = <<>> THEN t.lowEpochFailures ELSE w.lowEpochFailures,
         unexpectedFailures |->
             IF reward = <<>> THEN t.unexpectedFailures
             ELSE w.unexpectedFailures,
         progressWrites |->
             IF progress THEN w.progressWrites + 1 ELSE w.progressWrites]

\* the state of the process before its first chain query, whatever the
\* command line was
InitRun ==
    /\ pc = "getVoteBalance"
    /\ now = Now0
    /\ currentEpoch = NULL
    /\ epoch = NULL
    /\ rewards = <<>>
    /\ processedCount = 0
    /\ failedCount = 0
    /\ lowEpochFailures = 0
    /\ unexpectedFailures = 0
    /\ progressWrites = 0
    /\ twin = NoWalk
    /\ amount = 0
    /\ rewardTimestamp = 0
    /\ answer = NoAnswer
    /\ tally = <<>>
    /\ exitCode = NoExit
    /\ log = {}
    /\ files = {}
    /\ report = EmptyReport
    /\ inFlight = {}
    /\ queried = <<>>
    /\ outcomes = <<>>
    /\ thrown = 0
    /\ setupFailed = FALSE

\* --fallback-price-usd is not given: yargs fills in its default, the
\* configured value (line 74)
Init ==
    /\ chainEpoch \in ChainEpochs
    /\ maxEpochs \in EpochLimits
    /\ WalkLength(chainEpoch, maxEpochs) <= MaxWalk
    /\ verbose \in BOOLEAN
    /\ priceOption = fallbackPriceUsd
    /\ InitRun

(* ---------------------------------------------------------------------- *)
(* Setup phase of main (lines 354-366)                                     *)
(* ---------------------------------------------------------------------- *)
\* variant: the failure of a setup step is swallowed
SetupStepIgnoreFailure(ok) == "continue"

\* what a setup step does with the answer of the chain: a failed step
\* throws, and main has no try/catch around it
SetupStep(ok) == IF ok THEN "continue" ELSE "throw"

\* main().catch: `console.error('Error:', ...); process.exit(1)`
Abort ==
    /\ pc' = "aborted"
    /\ exitCode' = 1
    /\ log' = log \cup {"Error"}
    /\ inFlight' = {}
    /\ UNCHANGED <<inputVars, now, currentEpoch, walkerVars, fetcherVars,
                   tally, files, report, historyVars>>

\* getVoteBalance: connection.getBalance answers or throws
GetVoteBalance ==
    /\ pc = "getVoteBalance"
    /\ \E ok \in BOOLEAN :
         /\ setupFailed' = ~ok
         /\ thrown' = thrown
         /\ IF SetupStep(ok) = "throw" THEN Abort
            ELSE
              /\ pc' = "findVoteAccount"
              /\ log' = log \cup {"Balance"}
              /\ UNCHANGED <<inputVars, now, currentEpoch, walkerVars,
                             fetcherVars, tally, exitCode, files, report,
                             inFlight,
                             historyVars>>

\* findVoteAccount: getVoteAccounts throws, or the account is or is not
\* among the current and delinquent accounts
FindVoteAccount ==
    /\ pc = "findVoteAccount"
    /\ \E rpcOk \in BOOLEAN, found \in BOOLEAN :
         /\ setupFailed' = ~(rpcOk /\ found)
         /\ thrown' = thrown
         /\ IF SetupStep(rpcOk /\ found) = "throw" THEN Abort
            ELSE
              /\ pc' = "getCurrentEpoch"
              /\ UNCHANGED <<inputVars, now, currentEpoch, walkerVars,
                             fetcherVars, outputVars, inFlight, historyVars>>

\* getCurrentEpoch, then the start of fetchRewardsForEpochs (lines 256-269)
GetCurrentEpoch ==
    /\ pc = "getCurrentEpoch"
    /\ \E ok \in BOOLEAN :
         /\ setupFailed' = ~ok
         /\ thrown' = thrown
         /\ IF SetupStep(ok) = "throw" THEN Abort
            ELSE
              /\ currentEpoch' = chainEpoch
              /\ epoch' = chainEpoch - 1
              /\ rewards' = <<>>
              /\ processedCount' = 0
              /\ failedCount' = 0
              /\ lowEpochFailures' = 0
              /\ unexpectedFailures' = 0
              /\ twin' = [NoWalk EXCEPT !.epoch = chainEpoch - 1]
              /\ pc' = "loop"
              /\ UNCHANGED <<inputVars, now, progressWrites, fetcherVars,
                             outputVars, inFlight, historyVars>>

(* ---------------------------------------------------------------------- *)
(* The epoch walker fetchRewardsForEpochs (lines 269-308)                  *)
(* ---------------------------------------------------------------------- *)
\* answers of connection.getInflationReward([votePubkey], epoch)
RewardResponses ==
    {[kind |-> "throw", amount |-> 0, hasSlot |-> FALSE],
     [kind |-> "null", amount |-> 0, hasSlot |-> FALSE]} \cup
    [kind : {"reward"}, amount : RawAmounts, hasSlot : BOOLEAN]

\* answers of connection.getBlockTime(slot); time 0 stands for null
BlockTimeResponses ==
    {[kind |-> "throw", time |-> 0], [kind |-> "ok", time |-> 0]} \cup
    [kind : {"ok"}, time : BlockTimes]

\* the loop test of line 269 and, when it holds, the call of
\* fetchSingleEpochReward up to its first await (line 181)
LoopIssue ==
    /\ pc = "loop"
    /\ UNCHANGED errorVars
    /\ IF epoch >= 0
       THEN /\ pc' = "awaitReward"
            /\ inFlight' = inFlight \cup {<<"getInflationReward", epoch>>}
            /\ queried' = Append(queried, epoch)
            /\ log' = IF verbose THEN log \cup {"Querying"} ELSE log
            /\ UNCHANGED <<inputVars, now, currentEpoch, walkerVars,
                           fetcherVars, tally, exitCode, files, report,
                           outcomes>>
       ELSE /\ pc' = "afterLoop"
            /\ UNCHANGED <<inputVars, now, currentEpoch, walkerVars,
                           fetcherVars, outputVars, inFlight, historyVars>>

\* lines 272-296: the walker resumes with what the fetcher completed with.
\* The walker has no try/catch: an error thrown by the fetcher would leave
\* the walker and main and reach main().catch.
WalkerResume(completion, label) ==
    /\ setupFailed' = setupFailed
    /\ thrown' = IF label = "Failed" THEN thrown + 1 ELSE thrown
    /\ IF completion.kind = "throw"
       THEN Abort
       ELSE
         LET reward == completion.value
             t == TallyFailure(epoch, failedCount, lowEpochFailures,
                               unexpectedFailures)
             processed == processedCount + 1
         IN
         /\ rewards' = IF reward = <<>> THEN rewards ELSE rewards \o reward
         /\ failedCount' = IF reward = <<>> THEN t.failedCount ELSE failedCount
         /\ lowEpochFailures' =
               IF reward = <<>> THEN t.lowEpochFailures ELSE lowEpochFailures
         /\ unexpectedFailures' =
               IF reward = <<>> THEN t.unexpectedFailures ELSE unexpectedFailures
         /\ processedCount' = processed
         /\ progressWrites' =
               IF ~verbose /\ processed % updateInterval = 0
               THEN progressWrites + 1 ELSE progressWrites
         /\ twin' = WalkerAfterEpoch(twin, ~verbose, reward, maxEpochs)
         /\ log' = IF reward = <<>> THEN log ELSE log \cup {"Found"}
         /\ IF LimitReached(maxEpochs, processed)
            THEN pc' = "afterLoop" /\ epoch' = epoch
            ELSE pc' = "loop" /\ epoch' = NextEpoch(epoch)
         /\ amount' = 0
         /\ rewardTimestamp' = 0
         /\ answer' = NoAnswer
         /\ inFlight' = Awaited(inFlight, <<"getInflationReward", epoch>>)
         /\ outcomes' = Append(outcomes, label)
         /\ UNCHANGED <<inputVars, now, currentEpoch, tally, exitCode, files,
                        report,
                        queried>>

\* the wall clock may have advanced while a chain query was outstanding
ClockAfterQuery == {now} \cup
    (IF now < Now0 + MaxClockTicks THEN {now + 1} ELSE {})

\* the answer of getInflationReward arrives (lines 181-210)
RewardResponse ==
    /\ pc = "awaitReward"
    /\ \E resp \in RewardResponses :
         CASE resp.kind = "throw" ->
                WalkerResume(OnQueryError, "Failed")
           [] resp.kind = "null" \/ (resp.kind = "reward" /\ ~(resp.amount > 0)) ->
                WalkerResume([kind |-> "return", value |-> <<>>], "Empty")
           [] resp.kind = "reward" /\ resp.amount > 0 /\ resp.hasSlot ->
                /\ amount' = resp.amount
                /\ rewardTimestamp' = 0
                /\ answer' = NoAnswer
                /\ pc' = "awaitBlockTime"
                /\ UNCHANGED errorVars
                /\ inFlight' =
                      Awaited(inFlight, <<"getInflationReward", epoch>>)
                          \cup {<<"getBlockTime", epoch>>}
                /\ \E t \in ClockAfterQuery : now' = t
                /\ UNCHANGED <<inputVars, currentEpoch, walkerVars,
                               outputVars, historyVars>>
           [] resp.kind = "reward" /\ resp.amount > 0 /\ ~resp.hasSlot ->
                /\ \E t \in ClockAfterQuery :
                     /\ now' = t
                     /\ rewardTimestamp' =
                           ResolveTimestamp(0,
                               FallbackTimestamp(t, currentEpoch, epoch))
                /\ amount' = resp.amount
                /\ answer' = [kind |-> "noSlot", time |-> 0]
                /\ pc' = "awaitPrice"
                /\ UNCHANGED errorVars
                /\ inFlight' =
                      Awaited(inFlight, <<"getInflationReward", epoch>>)
                /\ log' = IF verbose THEN log \cup {"FallbackTime"} ELSE log
                /\ UNCHANGED <<inputVars, currentEpoch, walkerVars, tally,
                               exitCode, files, report, historyVars>>

\* the answer of getBlockTime arrives (lines 197-210)
BlockTimeResponse ==
    /\ pc = "awaitBlockTime"
    /\ \E resp \in BlockTimeResponses :
         LET ts == IF resp.kind = "throw" THEN OnBlockTimeError ELSE resp.time
         IN  /\ rewardTimestamp' =
                   ResolveTimestamp(ts,
                       FallbackTimestamp(now, currentEpoch, epoch))
             /\ answer' =
                   [kind |-> IF resp.kind = "throw" THEN "blockTimeError"
                             ELSE IF resp.time = 0 THEN "blockTimeNull"
                             ELSE "blockTime",
                    time |-> resp.time]
             /\ log' = IF verbose
                       THEN log \cup {IF ts = 0 THEN "FallbackTime" ELSE "BlockTime"}
                       ELSE log
             /\ thrown' = IF resp.kind = "throw" THEN thrown + 1 ELSE thrown
    /\ setupFailed' = setupFailed
    /\ pc' = "awaitPrice"
    /\ inFlight' = Awaited(inFlight, <<"getBlockTime", epoch>>)
    /\ UNCHANGED <<inputVars, now, currentEpoch, walkerVars, amount, tally,
                   exitCode, files, report, historyVars>>

\* fetchHistoricalPrice resolves (lines 212-221); the fetcher returns the
\* record and the walker resumes
PriceResolved ==
    /\ pc = "awaitPrice"
    /\ LET priceUSD == fetchHistoricalPrice(rewardTimestamp)
       IN  WalkerResume([kind |-> "return",
                         value |-> <<RewardRecord(epoch, rewardTimestamp,
                                                  amount, priceUSD)>>],
                        "Rewarded")

\* lines 299-307: the walker returns its result to main
WalkerReturn ==
    /\ pc = "afterLoop"
    /\ tally' = <<[totalEpochsProcessed |-> processedCount,
                   failedEpochs |-> failedCount,
                   lowEpochFailures |-> lowEpochFailures,
                   unexpectedFailures |-> unexpectedFailures,
                   expectedEpochs |->
                       ExpectedEpochsOf(processedCount, lowEpochFailures)]>>
    /\ log' = IF failedCount > 0 THEN log \cup {"Warning"} ELSE log
    /\ pc' = "walked"
    /\ UNCHANGED <<inputVars, now, currentEpoch, walkerVars, fetcherVars,
                   exitCode, files, report, inFlight, historyVars,
                   errorVars>>

(* ---------------------------------------------------------------------- *)
(* main after the walk (lines 376-401)                                     *)
(* ---------------------------------------------------------------------- *)
\* variant: a run without records is reported as an error
NoRewardsOutcomeError == [exit |-> 1, tag |-> "Error"]

\* lines 376-380: what main does when the walker returned no record
NoRewardsOutcome == [exit |-> 0, tag |-> "NoRewards"]

\* files written by writeMainCsv, writeAnalyticsCsv and writeJsonExport
OutputFiles(exportJson) ==
    {"xnt_rewards_with_prices.csv", "xnt_rewards_analytics.csv"} \cup
    (IF exportJson THEN {"xnt_rewards.json", "xnt_rewards_analytics.json"}
     ELSE {})

Finish ==
    /\ pc = "walked"
    /\ IF Len(rewards) = 0
       THEN /\ log' = log \cup {NoRewardsOutcome.tag}
            /\ exitCode' = NoRewardsOutcome.exit
            /\ pc' = IF NoRewardsOutcome.exit = 0 THEN "done" ELSE "aborted"
            /\ UNCHANGED <<rewards, files, report>>
       ELSE /\ rewards' = WithCumulative(SortByDate(rewards))
            /\ log' = log \cup {"Summary"}
            /\ \E exportJson \in BOOLEAN :
                 /\ files' = OutputFiles(exportJson)
                 /\ report' =
                       [ops |-> PostWalkOps(exportJson),
                        printed |-> printSummary(rewards', tally[1]),
                        rows |-> writeMainCsv(rewards'),
                        analytics |-> writeAnalyticsCsv(rewards', tally[1]),
                        json |-> writeJsonExport(rewards', tally[1],
                                                 exportJson)]
            /\ exitCode' = 0
            /\ pc' = "done"
    /\ UNCHANGED <<inputVars, now, currentEpoch, epoch, processedCount,
                   failedCount, lowEpochFailures, unexpectedFailures,
                   progressWrites, twin, fetcherVars, tally, inFlight,
                   historyVars, errorVars>>

Next ==
    \/ GetVoteBalance
    \/ FindVoteAccount
    \/ GetCurrentEpoch
    \/ LoopIssue
    \/ RewardResponse
    \/ BlockTimeResponse
    \/ PriceResolved
    \/ WalkerReturn
    \/ Finish

Spec == Init /\ [][Next]_vars

(* ---------------------------------------------------------------------- *)
(* Runs in which every chain query is eventually answered: the client     *)
(* returns or throws, and the event loop resumes the awaiting function    *)
(* ---------------------------------------------------------------------- *)
SpecAnswered == Init /\ [][Next]_vars /\ WF_vars(Next)

(* ---------------------------------------------------------------------- *)
(* Runs with and without --fallback-price-usd on the command line          *)
(* ---------------------------------------------------------------------- *)
\* values of argv.fallbackPriceUsd: the configured default, or twice that
\* given on the command line
PriceOptions == {fallbackPriceUsd, 2 * fallbackPriceUsd}

InitPriced ==
    /\ chainEpoch \in ChainEpochs
    /\ maxEpochs \in EpochLimits
    /\ WalkLength(chainEpoch, maxEpochs) <= MaxWalk
    /\ verbose \in BOOLEAN
    /\ priceOption \in PriceOptions
    /\ InitRun

SpecPriced == InitPriced /\ [][Next]_vars

(* ---------------------------------------------------------------------- *)
(* A full walk over the early epochs: the chain is past the early epochs  *)
(* by five epochs, no limit is given, the reward queries of the early     *)
(* epochs (0 .. EarlyEpochThreshold) all fail and the later epochs are    *)
(* rewarded                                                               *)
(* ---------------------------------------------------------------------- *)
\* the epoch the chain reports: epochs 20 down to 0 are walked
FullWalkEpoch == EarlyEpochThreshold + 6

InitFullWalk ==
    /\ chainEpoch = FullWalkEpoch
    /\ maxEpochs = NULL
    /\ verbose \in BOOLEAN
    /\ priceOption = fallbackPriceUsd
    /\ InitRun

\* the answer of getInflationReward in this walk: an error for an early
\* epoch, a positive reward of 1 XNT for a later one
FullWalkRewardResponse ==
    /\ RewardResponse
    /\ IF epoch <= EarlyEpochThreshold
       THEN thrown' = thrown + 1
       ELSE amount' = LamportsPerXnt

NextFullWalk ==
    \/ GetVoteBalance
    \/ FindVoteAccount
    \/ GetCurrentEpoch
    \/ LoopIssue
    \/ FullWalkRewardResponse
    \/ BlockTimeResponse
    \/ PriceResolved
    \/ WalkerReturn
    \/ Finish

SpecFullWalk == InitFullWalk /\ [][NextFullWalk]_vars

(* ---------------------------------------------------------------------- *)
(* The summary functions on their own: printSummary, writeAnalyticsCsv    *)
(* and writeJsonExport are applied, in any order and each up to twice, to *)
(* a final record sequence and a tally, the empty sequence and zero       *)
(* counts included; writeMainCsv is applied to the sequence once          *)
(* ---------------------------------------------------------------------- *)
\* record sequences as the walker collects them (epochs descending), each
\* record with a block time and a positive raw amount
CollectedSequences ==
    UNION {
        {[i \in 1 .. n |->
             RewardRecord(n - i, f[i][1], f[i][2],
                          fetchHistoricalPrice(f[i][1]))] :
           f \in [1 .. n -> BlockTimes \X (RawAmounts \ {0})]} :
        n \in 0 .. MaxRecords}

\* what main hands on: sorted, with cumulative fields (lines 382-393)
FinalSequences == {WithCumulative(SortByDate(s)) : s \in CollectedSequences}

\* tallies as the walker returns them (lines 299-307) for a walk that
\* found n records
TalliesFor(n) ==
    {[totalEpochsProcessed |-> c[1],
      failedEpochs |-> c[2],
      lowEpochFailures |-> c[3],
      unexpectedFailures |-> c[2] - c[3],
      expectedEpochs |-> ExpectedEpochsOf(c[1], c[3])] :
        c \in {x \in (0 .. MaxRecords) \X (0 .. MaxRecords) \X (0 .. MaxRecords) :
                  n + x[2] <= x[1] /\ x[3] <= x[2]}}

InitAggregator ==
    /\ rewards \in FinalSequences
    /\ tally \in {<<t>> : t \in TalliesFor(Len(rewards))}
    /\ pc = "summary"
    /\ chainEpoch = 0
    /\ maxEpochs = NULL
    /\ verbose = FALSE
    /\ now = Now0
    /\ currentEpoch = 0
    /\ epoch = NULL
    /\ processedCount = tally[1].totalEpochsProcessed
    /\ failedCount = tally[1].failedEpochs
    /\ lowEpochFailures = tally[1].lowEpochFailures
    /\ unexpectedFailures = tally[1].unexpectedFailures
    /\ progressWrites = 0
    /\ twin = NoWalk
    /\ priceOption = fallbackPriceUsd
    /\ amount = 0
    /\ rewardTimestamp = 0
    /\ answer = NoAnswer
    /\ exitCode = NoExit
    /\ log = {}
    /\ files = {}
    /\ report = EmptyReport
    /\ inFlight = {}
    /\ queried = <<>>
    /\ outcomes = <<>>
    /\ thrown = 0
    /\ setupFailed = FALSE

\* the functions that have been applied so far
Applied == {report.ops[i].by : i \in 1 .. Len(report.ops)}

\* how often a function has been applied so far
TimesApplied(by) ==
    Cardinality({i \in 1 .. Len(report.ops) : report.ops[i].by = by})

\* what a summary function did: computed a summary, or returned at once
AppliedOp(by, out) ==
    [op |-> IF out = <<>> THEN "return" ELSE "summary", by |-> by]

ApplyPrintSummary ==
    /\ pc = "summary"
    /\ TimesApplied("printSummary") <= 1
    /\ LET out == printSummary(rewards, tally[1])
       IN  /\ report' = [report EXCEPT
                           !.printed = out,
                           !.ops = Append(@, AppliedOp("printSummary", out))]
           /\ log' = IF out = <<>> THEN log ELSE log \cup {"Summary"}
    /\ UNCHANGED <<inputVars, pc, now, currentEpoch, walkerVars, fetcherVars,
                   tally, exitCode, files, inFlight, historyVars, errorVars>>

ApplyWriteAnalyticsCsv ==
    /\ pc = "summary"
    /\ TimesApplied("writeAnalyticsCsv") <= 1
    /\ LET out == writeAnalyticsCsv(rewards, tally[1])
       IN  /\ report' = [report EXCEPT
                           !.analytics = out,
                           !.ops = Append(@, AppliedOp("writeAnalyticsCsv", out))]
           /\ files' = IF out = <<>> THEN files
                       ELSE files \cup {"xnt_rewards_analytics.csv"}
    /\ UNCHANGED <<inputVars, pc, now, currentEpoch, walkerVars, fetcherVars,
                   tally, exitCode, log, inFlight, historyVars, errorVars>>

ApplyWriteJsonExport ==
    /\ pc = "summary"
    /\ TimesApplied("writeJsonExport") <= 1
    /\ \E exportJson \in BOOLEAN :
         LET out == writeJsonExport(rewards, tally[1], exportJson)
         IN  /\ report' = [report EXCEPT
                             !.json = out,
                             !.ops = Append(@, AppliedOp("writeJsonExport", out))]
             /\ files' = IF out = <<>> THEN files
                         ELSE files \cup {"xnt_rewards.json",
                                          "xnt_rewards_analytics.json"}
    /\ UNCHANGED <<inputVars, pc, now, currentEpoch, walkerVars, fetcherVars,
                   tally, exitCode, log, inFlight, historyVars, errorVars>>

\* writeMainCsv builds new row objects (`{...r, cumulativeXNT, ...}`) and
\* writes them; the array it is given is only read
ApplyWriteMainCsv ==
    /\ pc = "summary"
    /\ TimesApplied("writeMainCsv") = 0
    /\ report' = [report EXCEPT
                    !.rows = writeMainCsv(rewards),
                    !.ops = Append(@, [op |-> "write", by |-> "writeMainCsv"])]
    /\ files' = files \cup {"xnt_rewards_with_prices.csv"}
    /\ UNCHANGED <<inputVars, pc, now, currentEpoch, walkerVars, fetcherVars,
                   tally, exitCode, log, inFlight, historyVars, errorVars>>

NextAggregator ==
    \/ ApplyWriteMainCsv
    \/ ApplyPrintSummary
    \/ ApplyWriteAnalyticsCsv
    \/ ApplyWriteJsonExport

SpecAggregator == InitAggregator /\ [][NextAggregator]_vars

(* ---------------------------------------------------------------------- *)
(* Properties                                                              *)
(* ---------------------------------------------------------------------- *)
\* an epoch has just been finished with outcome o
Finished(o) ==
    /\ Len(outcomes') = Len(outcomes) + 1
    /\ outcomes'[Len(outcomes')] = o

FailureCountersUnchanged ==
    /\ failedCount' = failedCount
    /\ lowEpochFailures' = lowEpochFailures
    /\ unexpectedFailures' = unexpectedFailures

CountOutcome(o) == Cardinality({i \in 1 .. Len(outcomes) : outcomes[i] = o})

\* C1: an epoch that ends with outcome Empty (the query succeeded, the
\* reward is missing or not positive) leaves failedTotal, earlyFailures and
\* unexpectedFailures as they were; only a Failed outcome increments them.
C1_EmptyLeavesFailureCounters ==
    [][ /\ (Finished("Empty") => FailureCountersUnchanged)
        /\ (~FailureCountersUnchanged => Finished("Failed")) ]_vars

\* C2: the returned totalProcessed equals the count limit N when a limit
\* N >= 0 is given, and the full range size currentEpoch when none is.
C2_TotalProcessedEqualsLimit ==
    tally /= <<>> =>
        tally[1].totalEpochsProcessed =
            (IF maxEpochs = NULL THEN currentEpoch ELSE maxEpochs)

\* C3: at the end of a walk totalProcessed = number of records + number of
\* Empty outcomes + failedTotal, the three kinds being disjoint.
C3_ProcessedIsRecordsPlusEmptyPlusFailed ==
    (tally /= <<>> /\ pc = "walked") =>
        tally[1].totalEpochsProcessed =
            Len(rewards) + CountOutcome("Empty") + tally[1].failedEpochs

\* C4: after every iteration of the walk, and in the returned tally,
\* failedTotal = earlyFailures + unexpectedFailures.
C4_FailedIsEarlyPlusUnexpected ==
    /\ failedCount = lowEpochFailures + unexpectedFailures
    /\ tally /= <<>> =>
          tally[1].failedEpochs =
              tally[1].lowEpochFailures + tally[1].unexpectedFailures

C4_Witness ==
    /\ tally /= <<>>
    /\ tally[1].lowEpochFailures >= 1
    /\ tally[1].unexpectedFailures >= 1
    /\ Len(rewards) >= 1

\* the epochs tallied as failures so far: those that gave no record
TalliedEpochs ==
    {queried[i] : i \in {j \in 1 .. Len(outcomes) : outcomes[j] /= "Rewarded"}}

\* C5: every tallied failure of epoch e increments earlyFailures and not
\* unexpectedFailures when e <= 15, and unexpectedFailures and not
\* earlyFailures when e > 15; so earlyFailures counts the tallied epochs in
\* 0..15 and unexpectedFailures those above 15.
C5_FailureClassifiedByThreshold ==
    /\ [](/\ lowEpochFailures =
               Cardinality({e \in TalliedEpochs : e <= 15})
          /\ unexpectedFailures =
               Cardinality({e \in TalliedEpochs : e > 15}))
    /\ [][ failedCount' /= failedCount =>
             IF epoch <= 15
             THEN /\ lowEpochFailures' = lowEpochFailures + 1
                  /\ unexpectedFailures' = unexpectedFailures
             ELSE /\ unexpectedFailures' = unexpectedFailures + 1
                  /\ lowEpochFailures' = lowEpochFailures ]_vars

C5_Witness ==
    /\ pc = "walked"
    /\ 15 \in TalliedEpochs
    /\ 16 \in TalliedEpochs
    /\ lowEpochFailures = 1
    /\ unexpectedFailures = 2

\* C6: the returned expectedEpochs = totalProcessed - earlyFailures.
C6_ExpectedEpochs ==
    tally /= <<>> =>
        tally[1].expectedEpochs =
            tally[1].totalEpochsProcessed - tally[1].lowEpochFailures

C6_Witness ==
    /\ tally /= <<>>
    /\ tally[1].lowEpochFailures >= 1
    /\ tally[1].expectedEpochs >= 1
    /\ maxEpochs = NULL

\* C7: the reward queries are issued for currentEpoch-1, currentEpoch-2,
\* ... in strictly descending order, never below 0, each epoch at most
\* once: a failed epoch is not queried again.
C7_DescendingOncePerEpoch ==
    \A i \in 1 .. Len(queried) :
        /\ queried[i] = currentEpoch - i
        /\ queried[i] >= 0

C7_Witness ==
    /\ Len(queried) = 3
    /\ outcomes = <<"Failed", "Rewarded">>
    /\ queried[3] = 0
    /\ pc = "awaitReward"

\* C8: an error raised by the chain client while an epoch is queried
\* (getInflationReward, getBlockTime) does not leave the fetcher and does
\* not abort the walk: the walker goes on with the next lower epoch and
\* the records collected so far stay as they are.
C8_QueryErrorContained ==
    /\ [](thrown > 0 => pc /= "aborted" /\ "Error" \notin log)
    /\ [][ thrown' > thrown =>
             /\ rewards' = rewards
             /\ \/ pc = "awaitBlockTime" /\ pc' = "awaitPrice" /\ epoch' = epoch
                \/ /\ pc = "awaitReward"
                   /\ IF LimitReached(maxEpochs, processedCount')
                      THEN pc' = "afterLoop"
                      ELSE pc' = "loop" /\ epoch' = epoch - 1 ]_vars

C8_Witness ==
    /\ thrown >= 2
    /\ Len(rewards) >= 1
    /\ outcomes = <<"Rewarded", "Failed", "Rewarded">>
    /\ pc = "done"

\* C9: when a setup step fails (vote account not found, current epoch not
\* obtained) the run aborts with an error, no epoch reward query has been
\* issued and no output file is written.
C9_SetupFailureAborts ==
    setupFailed =>
        /\ pc = "aborted"
        /\ exitCode = 1
        /\ "Error" \in log
        /\ queried = <<>>
        /\ files = {}

C9_Witness ==
    /\ setupFailed
    /\ pc = "aborted"
    /\ "Balance" \in log

\* a run has ended after a walk that produced no record
EndedWithoutRecords ==
    /\ exitCode /= NoExit
    /\ tally /= <<>>
    /\ Len(rewards) = 0

\* C10: a run in which no attempted epoch yields a record completes
\* normally (exit code 0, no error reported), which differs from the
\* outcome of a run aborted by a setup failure (exit code 1, error).
C10_EmptyRunIsNotAnError ==
    /\ EndedWithoutRecords =>
          /\ pc = "done"
          /\ exitCode = 0
          /\ "Error" \notin log
          /\ "NoRewards" \in log
    /\ (setupFailed /\ exitCode /= NoExit) =>
          /\ exitCode /= 0
          /\ "Error" \in log
          /\ "NoRewards" \notin log

C10_Witness ==
    /\ EndedWithoutRecords
    /\ processedCount >= 2
    /\ "Failed" \in {outcomes[i] : i \in 1 .. Len(outcomes)}
    /\ "Empty" \in {outcomes[i] : i \in 1 .. Len(outcomes)}

(* ---------------------------------------------------------------------- *)
(* The final record sequence and the summary                              *)
(* ---------------------------------------------------------------------- *)
\* main has run to its end with at least one record: the sequence in
\* `rewards` is the one handed to printSummary and the writers
EndedWithRecords ==
    /\ pc = "done"
    /\ Len(rewards) > 0

\* moment(r.rewardDate).unix(): the resolved timestamp a record carries
TimestampOf(r) == ParseDate(r.rewardDate)

\* a summary with the values the boundary case asks for
IsZeroRecordSummary(x) ==
    /\ x /= <<>>
    /\ x[1].firstDate = NA
    /\ x[1].lastDate = NA
    /\ x[1].avgDaily = NA
    /\ x[1].avgPerEpoch = NA
    /\ x[1].percentageExpectedWithRewards = 0

\* C11: a run that ends with zero records still produces a summary (on the
\* console, in the analytics CSV or in the JSON export) whose date span and
\* averages are N/A and whose percentages are 0.00.
C11_ZeroRecordSummaryProduced ==
    EndedWithoutRecords =>
        \/ IsZeroRecordSummary(report.printed)
        \/ IsZeroRecordSummary(report.analytics)
        \/ IsZeroRecordSummary(report.json)

C13_TiesByEpochAscending ==
    EndedWithRecords =>
        \A i \in 1 .. Len(rewards) : \A j \in 1 .. Len(rewards) :
            (i < j /\ TimestampOf(rewards[i]) = TimestampOf(rewards[j]))
                => rewards[i].epoch < rewards[j].epoch

\* C14: in the final sequence the cumulative fields are the prefix sums of
\* xntAmount and valueUSD up to and including each record, and they are
\* non-decreasing along the sequence.
C14_CumulativeIsPrefixSum ==
    EndedWithRecords =>
        /\ rewards[1].cumulativeXNT = rewards[1].xntAmount
        /\ rewards[1].cumulativeUSD = rewards[1].valueUSD
        /\ \A i \in 2 .. Len(rewards) :
              /\ rewards[i].cumulativeXNT =
                     rewards[i - 1].cumulativeXNT + rewards[i].xntAmount
              /\ rewards[i].cumulativeUSD =
                     rewards[i - 1].cumulativeUSD + rewards[i].valueUSD
              /\ rewards[i - 1].cumulativeXNT <= rewards[i].cumulativeXNT
              /\ rewards[i - 1].cumulativeUSD <= rewards[i].cumulativeUSD

\* three consecutive epochs of 1.000000 XNT each at the fallback price:
\* the running totals are 1, 2, 3 XNT and 1, 2, 3 USD
C14_Witness ==
    /\ EndedWithRecords
    /\ Len(rewards) = 3
    /\ \A i \in 1 .. 3 :
          /\ rewards[i].xntAmount = 1000000
          /\ rewards[i].cumulativeXNT = i * 1000000
          /\ rewards[i].cumulativeUSD = i * 10000

\* positions in the trace of post-walk computations where running totals
\* are computed
CumulativePasses ==
    {i \in 1 .. Len(report.ops) : report.ops[i].op = "cumulative"}

\* C15: in one run the running totals are computed exactly once, and only
\* after the sort; no component computes them a second time.
C15_CumulativeComputedOnce ==
    EndedWithRecords =>
        /\ Cardinality(CumulativePasses) = 1
        /\ \A i \in CumulativePasses :
              \E j \in 1 .. (i - 1) : report.ops[j].op = "sort"

(* ---------------------------------------------------------------------- *)
(* Timestamp resolution and amounts in the fetcher                        *)
(* ---------------------------------------------------------------------- *)
\* the fetcher holds a positive reward and could not obtain a block time:
\* no effectiveSlot, getBlockTime threw, or getBlockTime returned no time
TimestampApproximated ==
    /\ pc = "awaitPrice"
    /\ answer.kind \in {"noSlot", "blockTimeError", "blockTimeNull"}

\* the fetcher holds a positive reward and getBlockTime returned a time
TimestampFromBlock ==
    /\ pc = "awaitPrice"
    /\ answer.kind = "blockTime"

\* the fetcher returns a record for the current epoch dated ts, and the
\* walker does not count the epoch as failed
ReturnsRecordDated(ts) ==
    /\ Finished("Rewarded")
    /\ Len(rewards') = Len(rewards) + 1
    /\ rewards'[Len(rewards')].epoch = epoch
    /\ rewards'[Len(rewards')].rewardDate = FormatUtc(ts)
    /\ FailureCountersUnchanged

\* C16: for a positive reward without effectiveSlot, or whose getBlockTime
\* call fails or returns no time, the timestamp is
\* now - (currentEpoch - epoch) * 86400 seconds; the fetcher still returns a
\* record with that (non-null) date and the epoch is not counted as failed.
C16_ApproximationAlwaysYieldsRecord ==
    /\ [](TimestampApproximated =>
            /\ rewardTimestamp = now - (currentEpoch - epoch) * 86400
            /\ rewardTimestamp > 0)
    /\ [][TimestampApproximated =>
            ReturnsRecordDated(now - (currentEpoch - epoch) * 86400)]_vars

\* the first epoch of a walk had a reward with a slot, getBlockTime threw,
\* and the walker holds the record dated by the approximation, no failure
\* counted
C16_Witness ==
    /\ outcomes = <<"Rewarded">>
    /\ thrown = 1
    /\ Len(rewards) = 1
    /\ rewards[1].rewardDate =
           FormatUtc(now - (currentEpoch - rewards[1].epoch) * 86400)
    /\ failedCount = 0

\* C17: for a positive reward with an effectiveSlot whose getBlockTime call
\* returns a time, the record's reward date is exactly that block time; the
\* day-offset approximation is not used.
C17_BlockTimeIsRewardDate ==
    /\ [](TimestampFromBlock => rewardTimestamp = answer.time)
    /\ [][TimestampFromBlock => ReturnsRecordDated(answer.time)]_vars

\* the first epoch's record carries a block time two days older than the
\* approximation would have been
C17_Witness ==
    /\ outcomes = <<"Rewarded">>
    /\ Len(rewards) = 1
    /\ rewards[1].epoch = currentEpoch - 1
    /\ rewards[1].rewardDate = FormatUtc(Now0 - 3 * SecondsPerDay + 3600)

\* C18: every reward record has xntAmount > 0 at its stored 6-decimal
\* precision, for every positive raw amount the chain returns.
C18_StoredAmountPositive ==
    \A i \in 1 .. Len(rewards) : rewards[i].xntAmount > 0

\* the summaries produced by a run
ProducedSummaries ==
    {x \in {"printed", "analytics", "json"} : report[x] /= <<>>}

\* C19: with at least one record, the reported days covered is (day of the
\* last record - day of the first record) + 1 and is at least 1, on the
\* console, in the analytics CSV and in the JSON export.
C19_DaysCovered ==
    EndedWithRecords =>
        /\ {"printed", "analytics"} \subseteq ProducedSummaries
        /\ \A x \in ProducedSummaries :
              /\ report[x][1].days =
                    (rewards[Len(rewards)].rewardDate.day
                        - rewards[1].rewardDate.day) + 1
              /\ report[x][1].days >= 1

\* records on two different days, two days apart, JSON export requested
C19_Witness ==
    /\ EndedWithRecords
    /\ ProducedSummaries = {"printed", "analytics", "json"}
    /\ report.printed[1].days = 3
    /\ report.analytics[1].days = 3
    /\ report.json[1].days = 3

(* ---------------------------------------------------------------------- *)
(* Divisions in the summary functions                                     *)
(* ---------------------------------------------------------------------- *)
\* the summaries that carry the percentage of processed epochs
WithProcessedPercentage == ProducedSummaries \cap {"analytics", "json"}

\* C20: no summary computation divides by zero: the percentage of processed
\* epochs with rewards is 0.00 when totalProcessed is 0, the percentage of
\* expected epochs with rewards is 0.00 when expectedEpochs is 0, and the
\* averages per day and per epoch are N/A when days or the record count is 0.
C20_NoDivisionByZero ==
    /\ \A x \in ProducedSummaries :
          /\ report[x][1].avgDaily /= NaN
          /\ report[x][1].avgPerEpoch /= NaN
          /\ report[x][1].percentageExpectedWithRewards /= NaN
          /\ tally[1].expectedEpochs = 0 =>
                report[x][1].percentageExpectedWithRewards = 0
          /\ report[x][1].days = 0 => report[x][1].avgDaily = NA
          /\ Len(rewards) = 0 => report[x][1].avgPerEpoch = NA
    /\ \A x \in WithProcessedPercentage :
          /\ report[x][1].percentageWithRewards /= NaN
          /\ tally[1].totalEpochsProcessed = 0 =>
                report[x][1].percentageWithRewards = 0

\* the JSON export of an empty record array after a walk over no epoch:
\* every divisor is zero
C20_Witness ==
    /\ Len(rewards) = 0
    /\ tally[1].totalEpochsProcessed = 0
    /\ tally[1].expectedEpochs = 0
    /\ report.json /= <<>>
    /\ report.json[1].days = 0
    /\ report.json[1].avgDaily = NA
    /\ report.json[1].avgPerEpoch = NA
    /\ report.json[1].percentageWithRewards = 0
    /\ report.json[1].percentageExpectedWithRewards = 0

(* ---------------------------------------------------------------------- *)
(* Repeating the summary computation                                      *)
(* ---------------------------------------------------------------------- *)
\* the statistics every summary carries
SummaryStats(x) ==
    [firstDate |-> x.firstDate,
     lastDate |-> x.lastDate,
     days |-> x.days,
     totalXNT |-> x.totalXNT,
     avgDaily |-> x.avgDaily,
     epochsWithRewards |-> x.epochsWithRewards,
     percentageExpectedWithRewards |-> x.percentageExpectedWithRewards,
     avgPerEpoch |-> x.avgPerEpoch]

\* a summary function applied again has produced what it produced before
SameAsBefore ==
    /\ (report.printed /= <<>> /\ report'.printed /= <<>>)
          => report'.printed = report.printed
    /\ (report.analytics /= <<>> /\ report'.analytics /= <<>>)
          => report'.analytics = report.analytics
    /\ (report.json /= <<>> /\ report'.json /= <<>>)
          => report'.json = report.json

C22_FullWalkTally ==
    tally /= <<>> =>
        /\ tally[1].totalEpochsProcessed = 21
        /\ tally[1].lowEpochFailures = 16
        /\ tally[1].unexpectedFailures = 0
        /\ tally[1].expectedEpochs = tally[1].totalEpochsProcessed - 16

\* the walker has returned after attempting 21 epochs, 20 down to 0, with
\* five records and sixteen failed queries
C22_Witness ==
    /\ tally /= <<>>
    /\ currentEpoch = 21
    /\ Len(queried) = 21
    /\ queried[1] = 20
    /\ queried[21] = 0
    /\ Len(rewards) = 5
    /\ CountOutcome("Failed") = 16
    /\ tally[1].lowEpochFailures = 16

(* ---------------------------------------------------------------------- *)
(* The failure tally against the records                                  *)
(* ---------------------------------------------------------------------- *)
\* an epoch has just been finished, whatever its outcome
EpochFinished == Len(outcomes') = Len(outcomes) + 1

\* C23: the reported failed-query count equals totalProcessed minus the
\* number of reward records: the tally starts at zero, each attempted epoch
\* that yields no record increments it exactly once, an epoch that yields a
\* record leaves it, and a limited run in which every attempted epoch is
\* rewarded reports 0 failed queries and as many records as epochs
\* attempted.
C23_FailedIsProcessedMinusRecords ==
    /\ [](/\ failedCount = processedCount - Len(rewards)
          /\ tally /= <<>> =>
                /\ tally[1].failedEpochs =
                      tally[1].totalEpochsProcessed - Len(rewards)
                /\ (maxEpochs /= NULL /\ CountOutcome("Rewarded") = Len(outcomes))
                      => /\ tally[1].failedEpochs = 0
                         /\ Len(rewards) = tally[1].totalEpochsProcessed
                         /\ Len(rewards) = Len(queried))
    /\ [][EpochFinished =>
            /\ processedCount' = processedCount + 1
            /\ IF Len(rewards') = Len(rewards)
               THEN failedCount' = failedCount + 1
               ELSE /\ failedCount' = failedCount
                    /\ Len(rewards') = Len(rewards) + 1]_vars

\* a limited walk of three epochs has returned: one rewarded, one without
\* reward and one whose query threw; two failed queries are reported
C23_Witness ==
    /\ tally /= <<>>
    /\ maxEpochs = 3
    /\ outcomes = <<"Rewarded", "Empty", "Failed">>
    /\ Len(rewards) = 1
    /\ tally[1].failedEpochs = 2
    /\ tally[1].totalEpochsProcessed = 3

(* ---------------------------------------------------------------------- *)
(* The price of a record                                                  *)
(* ---------------------------------------------------------------------- *)
\* C24: the price of every reward record of a run is the fallback price
\* selected by --fallback-price-usd (whose default is the configured
\* value), and all records of one run carry that same price.
C24_PriceIsSelectedFallback ==
    /\ \A i \in 1 .. Len(rewards) :
          rewards[i].priceUSD = priceOption * 1000000
    /\ \A i \in 1 .. Len(rewards) : \A j \in 1 .. Len(rewards) :
          rewards[i].priceUSD = rewards[j].priceUSD

(* ---------------------------------------------------------------------- *)
(* Sequential querying                                                    *)
(* ---------------------------------------------------------------------- *)
\* the reward query of the next epoch is being issued
QueryIssued == Len(queried') = Len(queried) + 1

\* C25: at most one chain query is in flight at any time: for each epoch e
\* the reward query, the nested block-time lookup and the price lookup of e
\* have all completed before the reward query of epoch e-1 is issued.
C25_OneQueryInFlight ==
    /\ [](Cardinality(inFlight) <= 1)
    /\ [][QueryIssued =>
            /\ inFlight = {}
            /\ pc = "loop"
            /\ Len(outcomes) = Len(queried)
            /\ inFlight' = {<<"getInflationReward", epoch>>}
            /\ Len(queried) > 0 => epoch = queried[Len(queried)] - 1]_vars

\* the second epoch of a walk waits for its block time, with nothing else
\* outstanding, after the first epoch ended with a record
C25_Witness ==
    /\ pc = "awaitBlockTime"
    /\ inFlight = {<<"getBlockTime", epoch>>}
    /\ Len(queried) = 2
    /\ outcomes = <<"Rewarded">>

(* ---------------------------------------------------------------------- *)
(* Termination of the walk                                                *)
(* ---------------------------------------------------------------------- *)
\* once the walk has started, the walker eventually returns
WalkEventuallyReturns == (currentEpoch /= NULL) ~> (tally /= <<>>)

\* the walker has returned after attempting epoch 0, or with the number of
\* attempted epochs at the limit, or (currentEpoch = 0) without an attempt
EndedAtRangeOrLimit ==
    tally /= <<>> =>
        \/ Len(queried) > 0 /\ queried[Len(queried)] = 0
        \/ maxEpochs /= NULL /\ tally[1].totalEpochsProcessed = maxEpochs
        \/ currentEpoch = 0 /\ Len(queried) = 0

\* no epoch is attempted once the number of attempted epochs has reached
\* the limit
NoAttemptBeyondLimit ==
    QueryIssued => (maxEpochs = NULL \/ processedCount < maxEpochs)

\* C26: provided every chain query eventually returns or fails, the walk
\* eventually terminates: it ends when epoch 0 has been attempted or when the
\* number of attempted epochs reaches the count limit, whichever comes
\* first, for every currentEpoch >= 0 (with no epoch attempted for
\* currentEpoch = 0).
C26_WalkTerminates ==
    /\ WalkEventuallyReturns
    /\ []EndedAtRangeOrLimit
    /\ [][NoAttemptBeyondLimit]_vars

(* ---------------------------------------------------------------------- *)
(* Verbose logging and the progress bar                                   *)
(* ---------------------------------------------------------------------- *)
\* the walk has started and main has not yet sorted the records
WalkInProgress ==
    /\ currentEpoch /= NULL
    /\ pc \notin {"done", "aborted"}

\* the walk with the other setting of verbose has the same records, the
\* same counters and the same loop variable
TwinAgrees ==
    /\ twin.rewards = rewards
    /\ twin.processedCount = processedCount
    /\ twin.failedCount = failedCount
    /\ twin.lowEpochFailures = lowEpochFailures
    /\ twin.unexpectedFailures = unexpectedFailures
    /\ twin.epoch = epoch

\* the returned tally is the one the other walk would return
TwinTallyAgrees ==
    /\ tally[1].totalEpochsProcessed = twin.processedCount
    /\ tally[1].failedEpochs = twin.failedCount
    /\ tally[1].lowEpochFailures = twin.lowEpochFailures
    /\ tally[1].unexpectedFailures = twin.unexpectedFailures
    /\ tally[1].expectedEpochs = twin.processedCount - twin.lowEpochFailures

\* a progress update is written in this step, by one of the two walks
ProgressWritten ==
    \/ progressWrites' /= progressWrites
    \/ twin'.progressWrites /= twin.progressWrites

\* C27: progress reporting and verbose logging never affect the result: the
\* walk with verbose on and the walk with verbose off, over the same chain
\* responses with the same currentEpoch and limit, hold and return the same
\* records and the same tally, and a step that emits a progress update
\* changes the records and the counters exactly as the step of the other
\* walk, which emits none.
C27_VerboseDoesNotAffectResult ==
    /\ [](WalkInProgress => TwinAgrees)
    /\ [](tally /= <<>> => TwinTallyAgrees)
    /\ [][ProgressWritten =>
            /\ (progressWrites' = progressWrites
                   \/ twin'.progressWrites = twin.progressWrites)
            /\ verbose => progressWrites' = progressWrites
            /\ TwinAgrees']_vars

\* a quiet walk of 21 epochs has returned after four progress updates; the
\* verbose walk wrote none and has the same five records
C27_Witness ==
    /\ pc = "walked"
    /\ ~verbose
    /\ progressWrites = 4
    /\ twin.progressWrites = 0
    /\ Len(rewards) = 5
    /\ twin.rewards = rewards
    /\ tally[1].totalEpochsProcessed = 21

(* ---------------------------------------------------------------------- *)
(* Range of the walk result and of the percentages                        *)
(* ---------------------------------------------------------------------- *)
\* the summaries written by a run that carry both percentages
PercentageSummaries == {x \in {"analytics", "json"} : report[x] /= <<>>}

\* C28: in every walk result recordCount <= expectedEpochs <=
\* totalProcessed, so both reported percentages (records over processed
\* epochs, records over expected epochs) lie between 0 and 100 inclusive.
C28_PercentagesWithinRange ==
    tally /= <<>> =>
        /\ Len(rewards) <= tally[1].expectedEpochs
        /\ tally[1].expectedEpochs <= tally[1].totalEpochsProcessed
        /\ \A x \in PercentageSummaries :
              /\ report[x][1].percentageWithRewards >= 0
              /\ report[x][1].percentageWithRewards <= 10000
              /\ report[x][1].percentageExpectedWithRewards >= 0
              /\ report[x][1].percentageExpectedWithRewards <= 10000
        /\ report.printed /= <<>> =>
              /\ report.printed[1].percentageExpectedWithRewards >= 0
              /\ report.printed[1].percentageExpectedWithRewards <= 10000

\* a finished walk of three epochs around the early-epoch threshold: one
\* record, an unexpected failure and an early failure; 33.33 % of the
\* processed and 50.00 % of the expected epochs have rewards
C28_Witness ==
    /\ pc = "done"
    /\ Len(rewards) = 1
    /\ tally[1].expectedEpochs = 2
    /\ tally[1].totalEpochsProcessed = 3
    /\ report.json /= <<>>
    /\ report.analytics[1].percentageWithRewards = 3333
    /\ report.analytics[1].percentageExpectedWithRewards = 5000
    /\ report.json[1].percentageWithRewards = 3333
    /\ report.json[1].percentageExpectedWithRewards = 5000

(* ---------------------------------------------------------------------- *)
(* The running totals of the main CSV                                     *)
(* ---------------------------------------------------------------------- *)
\* writeMainCsv is applied in this step
MainCsvWritten ==
    /\ Len(report'.ops) = Len(report.ops) + 1
    /\ report'.ops[Len(report'.ops)].by = "writeMainCsv"

\* C29: the cumulative values written to the main CSV by writeMainCsv are
\* equal, row by row, to the cumulativeXNT and cumulativeUSD fields attached
\* to the records in main, and writeMainCsv leaves the records it is given
\* unchanged.
C29_MainCsvCumulativesMatch ==
    /\ [](/\ Len(report.rows) \in {0, Len(rewards)}
          /\ \A i \in 1 .. Len(report.rows) :
                /\ report.rows[i].epoch = rewards[i].epoch
                /\ report.rows[i].cumulativeXNT = rewards[i].cumulativeXNT
                /\ report.rows[i].cumulativeUSD = rewards[i].cumulativeUSD)
    /\ [][MainCsvWritten =>
            /\ rewards' = rewards
            /\ Len(report'.rows) = Len(rewards)]_vars

\* two records of 1 XNT; the second row of the main CSV carries 2 XNT and
\* 2 USD, as the second record does
C29_Witness ==
    /\ TimesApplied("writeMainCsv") = 1
    /\ Len(report.rows) = 2
    /\ report.rows[2].cumulativeXNT = 2000000
    /\ report.rows[2].cumulativeUSD = 20000
    /\ rewards[2].cumulativeXNT = 2000000
    /\ rewards[2].cumulativeUSD = 20000

====
